---- MODULE Spec2Model ----
(***************************************************************************)
(* Lifecycle of RemoteStatsMonitor of package stats (StartSync, StartAsync, *)
(* Stop, Close, IsRunning, the mutators) together with the collector's     *)
(* ownership flags and the stages of one collect+log cycle.                *)
(*                                                                         *)
(* Every section the code runs under ctxMu (IsRunning, ensureFreshContext, *)
(* the read of m.cancel in Stop) is one atomic step.  The select of the    *)
(* loop reads m.ctx WITHOUT the lock; that read races with the write in    *)
(* ensureFreshContext, so it may return any context installed since the    *)
(* loop's own ensureFreshContext call (see ObservableCtx).                 *)
(***************************************************************************)
EXTENDS Integers, Sequences, FiniteSets, TLC

\* ---- bounds ----
MaxStarts == 2      \* calls of StartSync / StartAsync (one thread each)
MaxStops  == 2      \* calls of Stop / Close, made one after the other
MaxCycles == 2      \* collect+log cycles begun, over all loops
MaxMemLines  == 2   \* lines of /proc/meminfo
MaxStatLines == 2   \* lines of /proc/stat

\* ---- program constants (units of 100ms) ----
InitInterval    == 10
InitSampleDelta == 3

Starters  == 1..MaxStarts
Durations == {InitSampleDelta, InitInterval}
Kinds     == {"SFTP", "SSH", "SSHConfig"}

VARIABLES
    kind,            \* which constructor built the monitor
    sshClient,       \* collector.sshClient: "nil" or "set"
    ownsSftpClient,  \* collector.ownsSftpClient
    ownsSSHClient,   \* collector.ownsSSHClient
    sftpOpen,        \* the SFTP client is still open
    sshOpen,         \* the SSH connection is still open
    gpc,             \* position of the GetSystemStats call
    file,            \* lines of the remote file the latest step scanned
    opens,           \* remote files opened by the call, in order
    slept,           \* number of time.Sleep(r.sampleDelta) of the call
    mem,             \* results of getMemoryStats
    stat1,           \* first sample of getCPUStats
    stat2,           \* second sample of getCPUStats
    ret,             \* what GetSystemStats returned
    ctx,             \* m.ctx: id of the current context
    cancel,          \* m.cancel: id of the context it cancels
    done,            \* contexts whose Done channel is closed
    wg,              \* m.wg counter
    interval,        \* m.interval
    sampleDelta,     \* m.sampleDelta and collector.sampleDelta
    log,             \* records written by m.logger, oldest first
    began,           \* number of collection cycles begun so far
    pc,              \* position of each start call / loop
    startCtx,        \* m.ctx as left by the loop's own ensureFreshContext
    period,          \* interval the loop's ticker was created with
    tick,            \* a tick is buffered in ticker.C
    cyc,             \* number of the loop's cycle in flight
    beginDelta,      \* sampleDelta when the cycle in flight began
    sleepDelta,      \* duration the cycle in flight slept between samples
    stops,           \* number of Stop / Close calls made so far
    spc,             \* position of the latest Stop / Close call
    sop,             \* whether that call is "Stop" or "Close"
    scancel,         \* the cancel func that call read under the lock
    before           \* start calls made before that call began

callVars      == <<gpc, file, opens, slept, mem, stat1, stat2, ret>>
collectorVars == <<kind, sshClient, ownsSftpClient, ownsSSHClient, sftpOpen,
                   sshOpen, callVars>>
ctxVars       == <<ctx, cancel, done>>
confVars      == <<interval, sampleDelta>>
cycleVars     == <<cyc, beginDelta, sleepDelta>>
loopVars      == <<pc, startCtx, period, tick, cycleVars>>
stopVars      == <<stops, spc, sop, scancel, before>>
vars == <<collectorVars, ctxVars, wg, confVars, log, began, loopVars, stopVars>>

\* ---- constructors ----
\* NewRemoteStatsCollectorFromSFTP: the only place the collector is built.
\* It never stores an SSH client, and owns nothing.
NewRemoteStatsCollectorFromSFTP ==
    /\ sshClient = "nil"
    /\ ownsSftpClient = FALSE
    /\ ownsSSHClient = FALSE

\* NewRemoteStatsCollectorFromSSHConfig: dials, builds through FromSSH and
\* FromSFTP, then sets ownsSSHClient.
NewRemoteStatsCollectorFromSSHConfig ==
    /\ sshClient = "nil"
    /\ ownsSftpClient = FALSE
    /\ ownsSSHClient = TRUE

NewCollector(k) ==
    IF k = "SSHConfig" THEN NewRemoteStatsCollectorFromSSHConfig
                       ELSE NewRemoteStatsCollectorFromSFTP

\* NewRemoteStatsMonitorFrom*: context.WithCancel(context.Background()).
NewRemoteStatsMonitor ==
    /\ ctx = 1
    /\ cancel = 1
    /\ done = {}
    /\ wg = 0
    /\ interval = InitInterval
    /\ sampleDelta = InitSampleDelta
    /\ log = <<>>

\* ---- numbers ----
\* The code computes in float64.  The model computes the same expressions
\* exactly, as fractions n/d in lowest terms with d > 0.
RECURSIVE Gcd(_, _)
Gcd(a, b) == IF b = 0 THEN a ELSE Gcd(b, a % b)

Abs(a) == IF a < 0 THEN 0 - a ELSE a

Rat(n, d) ==
    LET g == Gcd(Abs(n), Abs(d))
        sg == IF d < 0 THEN 0 - 1 ELSE 1
    IN  [n |-> sg * (n \div g), d |-> sg * (d \div g)]

RatDiv(a, b) == Rat(a.n * b.d, a.d * b.n)
RatTimes(a, k) == Rat(a.n * k, a.d)
RatLe(a, b) == a.n * b.d <= b.n * a.d
Zero == Rat(0, 1)

\* ---- remote files ----
\* A token of a line after its first field: a decimal number, or text that
\* strconv.ParseFloat rejects.
Num(v) == [num |-> TRUE, val |-> v]
Text == [num |-> FALSE, val |-> 0]

\* strconv.ParseFloat(tok, 64)
ParseFloat(tok) == [err |-> ~tok.num, v |-> tok.val]

\* A line: its first field and the fields after it.
Line(first, toks) == [key |-> first, toks |-> toks]

SeqsUpTo(S, n) == UNION {[1..k -> S] : k \in 0..n}

NoStats ==
    [TotalMemoryMB |-> Zero, UsedMemoryMB |-> Zero, UsedMemoryPercent |-> Zero,
     TotalCPUPercentage |-> Zero, CPUStats |-> <<>>]

\* No GetSystemStats call has been made.
InitCall ==
    /\ gpc = "idle"
    /\ file = <<>>
    /\ opens = <<>>
    /\ slept = 0
    /\ mem = [totalMB |-> Zero, usedMB |-> Zero]
    /\ stat1 = <<>>
    /\ stat2 = <<>>
    /\ ret = [err |-> "nil", nonNil |-> FALSE, stats |-> NoStats]

InitState(kinds) ==
    /\ kind \in kinds
    /\ NewCollector(kind)
    /\ sftpOpen = TRUE
    /\ sshOpen = TRUE
    /\ InitCall
    /\ NewRemoteStatsMonitor
    /\ began = 0
    /\ pc = [l \in Starters |-> "idle"]
    /\ startCtx = [l \in Starters |-> 0]
    /\ period = [l \in Starters |-> 0]
    /\ tick = [l \in Starters |-> FALSE]
    /\ cyc = [l \in Starters |-> 0]
    /\ beginDelta = [l \in Starters |-> 0]
    /\ sleepDelta = [l \in Starters |-> 0]
    /\ stops = 0
    /\ spc = "idle"
    /\ sop = "Stop"
    /\ scancel = 0
    /\ before = {}

\* main.go builds the monitor with NewRemoteStatsMonitorFromSSHConfig.
Init == InitState({"SSHConfig"})

\* ---- helpers ----
Done(c) == c \in done

\* IsRunning: under ctxMu, true iff m.ctx is not cancelled.
IsRunning == ~Done(ctx)

\* A loop exists from wg.Add(1) to the deferred wg.Done().
InLoop(l) == pc[l] \in {"collect1", "collect2", "failed", "select"}
ActiveLoops == {l \in Starters : InLoop(l)}

\* A start call that has been made and whose loop has not exited.
InProgress(l) == pc[l] \notin {"idle", "done"}

\* Calls are numbered in the order in which they are made.
NextStarter(l) == pc[l] = "idle" /\ \A k \in Starters : k < l => pc[k] # "idle"

\* ---- context recreation ----
\* Mutation of ensureFreshContext: recreates the context even when it is live.
ensureFreshContextAlways ==
    /\ ctx' = ctx + 1
    /\ cancel' = ctx + 1
    /\ done' = done

\* Mutation of ensureFreshContext: never recreates the context.
ensureFreshContextNever ==
    UNCHANGED ctxVars

\* ensureFreshContext: under ctxMu, replace a cancelled context by a fresh one.
ensureFreshContext ==
    IF Done(ctx)
    THEN /\ ctx' = ctx + 1
         /\ cancel' = ctx + 1
         /\ done' = done
    ELSE UNCHANGED ctxVars

\* The contexts an unlocked read of m.ctx by loop l may return: the write
\* its own ensureFreshContext call saw, or any later (racing) write.
ObservableCtx(l) == startCtx[l]..ctx

\* The values an unlocked read of collector.sampleDelta may return during
\* the cycle in flight of loop l.
ObservableDelta(l) == {beginDelta[l], sampleDelta}

\* ---- start ----
\* StartAsync: ensureFreshContext, spawn the goroutine, return nil.
StartAsync(l) ==
    /\ NextStarter(l)
    /\ ensureFreshContext
    /\ pc' = [pc EXCEPT ![l] = "go"]
    /\ UNCHANGED <<collectorVars, wg, confVars, log, began, startCtx, period,
                   tick, cycleVars, stopVars>>

\* StartSync, first statement (called directly or by the spawned goroutine).
StartSyncEnsure(l) ==
    /\ NextStarter(l) \/ pc[l] = "go"
    /\ ensureFreshContext
    /\ pc' = [pc EXCEPT ![l] = "ensured"]
    /\ startCtx' = [startCtx EXCEPT ![l] = ctx']
    /\ UNCHANGED <<collectorVars, wg, confVars, log, began, period, tick,
                   cycleVars, stopVars>>

\* The runtime delivers a tick into ticker.C (capacity 1; a tick that finds
\* the buffer full is dropped).  The loop reads ticker.C only in its select,
\* so a tick delivered during a cycle is the same as one delivered when the
\* loop is back at the select: only the latter is generated.
TickerFire(l) ==
    /\ pc[l] = "select"
    /\ ~tick[l]
    /\ tick' = [tick EXCEPT ![l] = TRUE]
    /\ UNCHANGED <<collectorVars, ctxVars, wg, confVars, log, began, pc,
                   startCtx, period, cycleVars, stopVars>>

\* ---- one collect+log cycle ----
\* collectAndLog is entered: GetSystemStats starts (memory, first sample).
BeginCycle(l) ==
    /\ began < MaxCycles
    /\ began' = began + 1
    /\ cyc' = [cyc EXCEPT ![l] = began + 1]
    /\ beginDelta' = [beginDelta EXCEPT ![l] = sampleDelta]
    /\ sleepDelta' = [sleepDelta EXCEPT ![l] = 0]
    /\ pc' = [pc EXCEPT ![l] = "collect1"]

\* StartSync: m.wg.Add(1); ticker := time.NewTicker(m.interval); then
\* "Collect initial stats": collectAndLog is entered.
StartSyncAdd(l) ==
    /\ pc[l] = "ensured"
    /\ wg' = wg + 1
    /\ period' = [period EXCEPT ![l] = interval]
    /\ tick' = [tick EXCEPT ![l] = FALSE]
    /\ BeginCycle(l)
    /\ UNCHANGED <<collectorVars, ctxVars, confVars, log, startCtx, stopVars>>

\* StartSync: case <-ticker.C of the select.
TickCycle(l) ==
    /\ pc[l] = "select"
    /\ tick[l]
    /\ tick' = [tick EXCEPT ![l] = FALSE]
    /\ BeginCycle(l)
    /\ UNCHANGED <<collectorVars, ctxVars, wg, confVars, log, startCtx,
                   period, stopVars>>

\* collectAndLog returns; next is position p of StartSync.
EndCycle(l, p) ==
    /\ cyc' = [cyc EXCEPT ![l] = 0]
    /\ beginDelta' = [beginDelta EXCEPT ![l] = 0]
    /\ sleepDelta' = [sleepDelta EXCEPT ![l] = 0]
    /\ pc' = [pc EXCEPT ![l] = p]

\* Mutation of CollectFail: StartSync returns the error of a failed
\* collection (deferred ticker.Stop and wg.Done run).
CollectFailReturns(l) ==
    /\ pc[l] \in {"collect1", "collect2"}
    /\ cyc' = [cyc EXCEPT ![l] = 0]
    /\ beginDelta' = [beginDelta EXCEPT ![l] = 0]
    /\ sleepDelta' = [sleepDelta EXCEPT ![l] = 0]
    /\ pc' = [pc EXCEPT ![l] = "done"]
    /\ startCtx' = [startCtx EXCEPT ![l] = 0]
    /\ period' = [period EXCEPT ![l] = 0]
    /\ wg' = wg - 1
    /\ UNCHANGED <<collectorVars, ctxVars, confVars, log, began, tick,
                   stopVars>>

\* GetSystemStats fails (memory stats, first or second sample): collectAndLog
\* returns the wrapped error.
CollectFail(l) ==
    /\ pc[l] \in {"collect1", "collect2"}
    /\ EndCycle(l, "failed")
    /\ UNCHANGED <<collectorVars, ctxVars, wg, confVars, log, began, startCtx,
                   period, tick, stopVars>>

\* getCPUStats: the first sample is read; time.Sleep(r.sampleDelta).
Sleep(l) ==
    /\ pc[l] = "collect1"
    /\ sftpOpen
    /\ \E d \in ObservableDelta(l) :
           sleepDelta' = [sleepDelta EXCEPT ![l] = d]
    /\ pc' = [pc EXCEPT ![l] = "collect2"]
    /\ UNCHANGED <<collectorVars, ctxVars, wg, confVars, log, began, startCtx,
                   period, tick, cyc, beginDelta, stopVars>>

\* The second sample is read and GetSystemStats returns the snapshot;
\* m.logLineFunc fails: collectAndLog returns the wrapped error.
FormatFail(l) ==
    /\ pc[l] = "collect2"
    /\ sftpOpen
    /\ EndCycle(l, "failed")
    /\ UNCHANGED <<collectorVars, ctxVars, wg, confVars, log, began, startCtx,
                   period, tick, stopVars>>

\* StartSync: if err != nil { fmt.Printf("Error collecting ...") }: the error
\* is printed and the loop goes on to the select.
PrintError(l) ==
    /\ pc[l] = "failed"
    /\ pc' = [pc EXCEPT ![l] = "select"]
    /\ UNCHANGED <<collectorVars, ctxVars, wg, confVars, log, began, startCtx,
                   period, tick, cycleVars, stopVars>>

\* Mutation of Printf: the record is put in front of the earlier ones.
PrintfFront(lg, rec) == <<rec>> \o lg

\* m.logger.Printf: the record is written after the earlier ones.
Printf(lg, rec) == Append(lg, rec)

\* The second sample is read, GetSystemStats returns the snapshot,
\* m.logLineFunc formats it and the record is logged.
LogRecord(l) ==
    /\ pc[l] = "collect2"
    /\ sftpOpen
    /\ log' = Printf(log, [loop |-> l, cycle |-> cyc[l]])
    /\ EndCycle(l, "select")
    /\ UNCHANGED <<collectorVars, ctxVars, wg, confVars, began, startCtx,
                   period, tick, stopVars>>

\* Mutation of LoopExit: the deferred m.wg.Done() is missing.
LoopExitNoDone(l) ==
    /\ pc[l] = "select"
    /\ \E c \in ObservableCtx(l) : Done(c)
    /\ pc' = [pc EXCEPT ![l] = "done"]
    /\ tick' = [tick EXCEPT ![l] = FALSE]
    /\ startCtx' = [startCtx EXCEPT ![l] = 0]
    /\ period' = [period EXCEPT ![l] = 0]
    /\ UNCHANGED <<collectorVars, ctxVars, wg, confVars, log, began,
                   cycleVars, stopVars>>

\* StartSync: case <-m.ctx.Done() of the select: return nil; the deferred
\* ticker.Stop() and m.wg.Done() run.
LoopExit(l) ==
    /\ pc[l] = "select"
    /\ \E c \in ObservableCtx(l) : Done(c)
    /\ pc' = [pc EXCEPT ![l] = "done"]
    /\ tick' = [tick EXCEPT ![l] = FALSE]
    /\ startCtx' = [startCtx EXCEPT ![l] = 0]
    /\ period' = [period EXCEPT ![l] = 0]
    /\ wg' = wg - 1
    /\ UNCHANGED <<collectorVars, ctxVars, confVars, log, began, cycleVars,
                   stopVars>>

\* ---- stop, close ----
\* Stop and Close are called by the controlling thread, one call after the
\* other, concurrently with the start calls and the loops.

\* Stop (called directly, or as the first statement of Close): under ctxMu,
\* cancel := m.cancel.  With track, the start calls made so far are noted.
StopRead(op, track) ==
    /\ spc \in {"idle", "returned", "closed"}
    /\ stops < MaxStops
    /\ stops' = stops + 1
    /\ sop' = op
    /\ scancel' = cancel
    /\ before' = IF track THEN {l \in Starters : pc[l] # "idle"} ELSE before
    /\ spc' = "read"
    /\ UNCHANGED <<collectorVars, ctxVars, wg, confVars, log, began, loopVars>>

\* Stop: cancel().
StopCancel ==
    /\ spc = "read"
    /\ done' = done \cup {scancel}
    /\ spc' = "wait"
    /\ UNCHANGED <<collectorVars, ctx, cancel, wg, confVars, log, began,
                   loopVars, stops, sop, scancel, before>>

\* Stop: m.wg.Wait() returns, and so does Stop.
StopWait ==
    /\ spc = "wait"
    /\ wg = 0
    /\ spc' = "returned"
    /\ scancel' = 0
    /\ UNCHANGED <<collectorVars, ctxVars, wg, confVars, log, began, loopVars,
                   stops, sop, before>>

\* remoteStatsCollector.Close, called by Close after Stop has returned.
CollectorClose ==
    /\ spc = "returned"
    /\ sop = "Close"
    /\ sftpOpen' = IF ownsSftpClient THEN FALSE ELSE sftpOpen
    /\ sshOpen' = IF ownsSSHClient /\ sshClient # "nil" THEN FALSE ELSE sshOpen
    /\ spc' = "closed"
    /\ UNCHANGED <<kind, sshClient, ownsSftpClient, ownsSSHClient, callVars,
                   ctxVars, wg, confVars, log, began, loopVars, stops, sop,
                   scancel, before>>

\* ---- mutators ----
SetInterval(d) ==
    /\ interval' = d
    /\ UNCHANGED <<collectorVars, ctxVars, wg, sampleDelta, log, began,
                   loopVars, stopVars>>

SetSampleDelta(d) ==
    /\ sampleDelta' = d
    /\ UNCHANGED <<collectorVars, ctxVars, wg, interval, log, began,
                   loopVars, stopVars>>

\* ---- one GetSystemStats call (GetCurrentStats, or one cycle's collection) ----
lifeVars == <<kind, sshClient, ownsSftpClient, ownsSSHClient, sftpOpen, sshOpen,
              ctxVars, wg, confVars, log, began, loopVars, stopVars>>

MeminfoPath == "/proc/meminfo"
StatPath    == "/proc/stat"

\* Mutation of ScanMemLine: a key that already has a value keeps it.
ScanMemLineFirst(acc, line) ==
    IF Len(line.toks) < 1 THEN acc
    ELSE IF ParseFloat(line.toks[1]).err THEN acc
    ELSE IF line.key = "MemTotal:" /\ acc.total = 0
         THEN [acc EXCEPT !.total = ParseFloat(line.toks[1]).v]
    ELSE IF line.key = "MemAvailable:" /\ acc.available = 0
         THEN [acc EXCEPT !.available = ParseFloat(line.toks[1]).v]
    ELSE acc

\* getMemoryStats, body of the scan loop: lines with fewer than two fields
\* or a value that does not parse are skipped; the two keys are assigned.
ScanMemLine(acc, line) ==
    IF Len(line.toks) < 1 THEN acc
    ELSE IF ParseFloat(line.toks[1]).err THEN acc
    ELSE IF line.key = "MemTotal:"
         THEN [acc EXCEPT !.total = ParseFloat(line.toks[1]).v]
    ELSE IF line.key = "MemAvailable:"
         THEN [acc EXCEPT !.available = ParseFloat(line.toks[1]).v]
    ELSE acc

RECURSIVE ScanMeminfo(_, _, _)
ScanMeminfo(lines, i, acc) ==
    IF i > Len(lines) THEN acc
    ELSE ScanMeminfo(lines, i + 1, ScanMemLine(acc, lines[i]))

\* Mutation of MemResult: the check of total == 0 is missing.
MemResultNoCheck(acc) ==
    [err |-> "nil",
     totalMB |-> Rat(acc.total, 1024),
     usedMB |-> Rat(acc.total - acc.available, 1024)]

\* getMemoryStats after the scan: the zero check and the conversion to MB.
MemResult(acc) ==
    IF acc.total = 0
    THEN [err |-> "invalid meminfo", totalMB |-> Zero, usedMB |-> Zero]
    ELSE [err |-> "nil",
          totalMB |-> Rat(acc.total, 1024),
          usedMB |-> Rat(acc.total - acc.available, 1024)]

getMemoryStats(lines) ==
    MemResult(ScanMeminfo(lines, 1, [total |-> 0, available |-> 0]))

\* strings.HasPrefix(line, "cpu"), on the first field of the line.
HasPrefixCpu(line) == line.key \in {"cpu", "cpu0", "cpu1"}

ParseFails(line) == \E j \in DOMAIN line.toks : ParseFloat(line.toks[j]).err
Values(line) == [j \in DOMAIN line.toks |-> ParseFloat(line.toks[j]).v]

\* Mutation of ScanStat: a line without the prefix is skipped (continue).
RECURSIVE ScanStatFilter(_, _, _)
ScanStatFilter(lines, i, stats) ==
    IF i > Len(lines) THEN [err |-> FALSE, stats |-> stats]
    ELSE IF ~HasPrefixCpu(lines[i]) THEN ScanStatFilter(lines, i + 1, stats)
    ELSE IF ParseFails(lines[i]) THEN [err |-> TRUE, stats |-> <<>>]
    ELSE ScanStatFilter(lines, i + 1,
                        (lines[i].key :> Values(lines[i])) @@ stats)

\* getCPUStats, snapshot: the scan loop.  It breaks at the first line without
\* the prefix, returns the error of a token that does not parse, and stores
\* the values under the core id (a later line of the same id replaces them).
RECURSIVE ScanStat(_, _, _)
ScanStat(lines, i, stats) ==
    IF i > Len(lines) THEN [err |-> FALSE, stats |-> stats]
    ELSE IF ~HasPrefixCpu(lines[i]) THEN [err |-> FALSE, stats |-> stats]
    ELSE IF ParseFails(lines[i]) THEN [err |-> TRUE, stats |-> <<>>]
    ELSE ScanStat(lines, i + 1, (lines[i].key :> Values(lines[i])) @@ stats)

snapshot(lines) == ScanStat(lines, 1, <<>>)

\* Sum of the first n values of v.
RECURSIVE SumFirst(_, _)
SumFirst(v, n) == IF n = 0 THEN 0 ELSE SumFirst(v, n - 1) + v[n]

\* Mutation of DeltaIdle: the idle counter of the first sample is not
\* subtracted.
DeltaIdleAbsolute(values1, values2) == values2[4]

\* deltaIdle := idle2 - idle1, the counters at index 3.
DeltaIdle(values1, values2) == values2[4] - values1[4]

\* getCPUStats, body of the loop over stat1 for one core.  The sum loop
\* indexes values2 with the indices of values1: it panics (index out of
\* range) when values2 is shorter.
CoreStep(acc, core, s1, s2) ==
    IF core \notin DOMAIN s2 THEN acc
    ELSE LET values1 == s1[core]
             values2 == s2[core]
             total1 == SumFirst(values1, Len(values1))
             total2 == SumFirst(values2, Len(values1))
         IN  IF Len(values1) > Len(values2) THEN [acc EXCEPT !.panic = TRUE]
             ELSE IF ~(Len(values1) > 3) THEN acc
             ELSE IF total2 - total1 = 0 THEN acc
             ELSE LET deltaIdle == DeltaIdle(values1, values2)
                      deltaTotal == total2 - total1
                      usage == RatTimes(Rat(deltaTotal - deltaIdle, deltaTotal),
                                        100)
                  IN  IF core = "cpu"
                      THEN [acc EXCEPT !.totalUsage = usage]
                      ELSE [acc EXCEPT !.perCore =
                               Append(@, [Core |-> core, UsagePct |-> usage])]

\* Mutation of RangeStat1: the loop stops at a core missing from stat2.
RECURSIVE RangeStat1Break(_, _, _, _, _)
RangeStat1Break(order, i, s1, s2, acc) ==
    IF i > Len(order) \/ acc.panic THEN acc
    ELSE IF order[i] \notin DOMAIN s2 THEN acc
    ELSE RangeStat1Break(order, i + 1, s1, s2, CoreStep(acc, order[i], s1, s2))

\* getCPUStats: for core, values1 := range stat1, visiting the cores in the
\* given order, until the end or a panic.
RECURSIVE RangeStat1(_, _, _, _, _)
RangeStat1(order, i, s1, s2, acc) ==
    IF i > Len(order) \/ acc.panic THEN acc
    ELSE RangeStat1(order, i + 1, s1, s2, CoreStep(acc, order[i], s1, s2))

cpuUsage(order, s1, s2) ==
    RangeStat1(order, 1, s1, s2,
               [panic |-> FALSE, totalUsage |-> Zero, perCore |-> <<>>])

\* The iteration order of a Go map is unspecified: any order of the keys.
IterationOrders(m) ==
    {o \in [1..Cardinality(DOMAIN m) -> DOMAIN m] :
        \A i, j \in DOMAIN o : i # j => o[i] # o[j]}

\* Mutation of GetSystemStatsFail: the memory figures come back with the
\* error.
GetSystemStatsFailPartial(e, m) ==
    [err |-> e, nonNil |-> TRUE,
     stats |-> [NoStats EXCEPT !.TotalMemoryMB = m.totalMB,
                               !.UsedMemoryMB = m.usedMB]]

\* GetSystemStats: return nil, fmt.Errorf(...).
GetSystemStatsFail(e, m) ==
    [err |-> e, nonNil |-> FALSE, stats |-> NoStats]

\* GetSystemStats: return &SystemStats{...}, nil.
GetSystemStatsOk(m, c) ==
    [err |-> "nil", nonNil |-> TRUE,
     stats |-> [TotalMemoryMB |-> m.totalMB,
                UsedMemoryMB |-> m.usedMB,
                UsedMemoryPercent |-> RatTimes(RatDiv(m.usedMB, m.totalMB), 100),
                TotalCPUPercentage |-> c.totalUsage,
                CPUStats |-> c.perCore]]

\* GetSystemStats calls getMemoryStats: /proc/meminfo is opened and scanned.
\* io = FALSE: the open or a read fails.
GetMemoryStats(inputs) ==
    /\ gpc = "idle"
    /\ opens' = Append(opens, MeminfoPath)
    /\ \E io \in BOOLEAN, content \in inputs :
          /\ io => sftpOpen
          /\ LET r == getMemoryStats(content)
             IN  IF ~io
                 THEN /\ file' = <<>>
                      /\ ret' = GetSystemStatsFail("memory: io", mem)
                      /\ gpc' = "returned"
                      /\ mem' = mem
                 ELSE IF r.err # "nil"
                 THEN /\ file' = content
                      /\ ret' = GetSystemStatsFail("memory: invalid meminfo", mem)
                      /\ gpc' = "returned"
                      /\ mem' = mem
                 ELSE /\ file' = content
                      /\ mem' = [totalMB |-> r.totalMB, usedMB |-> r.usedMB]
                      /\ gpc' = "snap1"
                      /\ ret' = ret
    /\ UNCHANGED <<lifeVars, slept, stat1, stat2>>

\* getCPUStats: stat1, err := snapshot().
Snapshot1(inputs) ==
    /\ gpc = "snap1"
    /\ opens' = Append(opens, StatPath)
    /\ \E io \in BOOLEAN, content \in inputs :
          /\ io => sftpOpen
          /\ LET r == snapshot(content)
             IN  IF ~io
                 THEN /\ file' = <<>>
                      /\ ret' = GetSystemStatsFail("cpu: io", mem)
                      /\ gpc' = "returned"
                      /\ stat1' = stat1
                 ELSE IF r.err
                 THEN /\ file' = content
                      /\ ret' = GetSystemStatsFail("cpu: parse", mem)
                      /\ gpc' = "returned"
                      /\ stat1' = stat1
                 ELSE /\ file' = content
                      /\ stat1' = r.stats
                      /\ gpc' = "sleep"
                      /\ ret' = ret
    /\ UNCHANGED <<lifeVars, slept, mem, stat2>>

\* getCPUStats: time.Sleep(r.sampleDelta).
SleepDelta ==
    /\ gpc = "sleep"
    /\ slept' = slept + 1
    /\ file' = <<>>
    /\ gpc' = "snap2"
    /\ UNCHANGED <<lifeVars, opens, mem, stat1, stat2, ret>>

\* getCPUStats: stat2, err := snapshot().
Snapshot2(inputs) ==
    /\ gpc = "snap2"
    /\ opens' = Append(opens, StatPath)
    /\ \E io \in BOOLEAN, content \in inputs :
          /\ io => sftpOpen
          /\ LET r == snapshot(content)
             IN  IF ~io
                 THEN /\ file' = <<>>
                      /\ ret' = GetSystemStatsFail("cpu: io", mem)
                      /\ gpc' = "returned"
                      /\ stat2' = stat2
                 ELSE IF r.err
                 THEN /\ file' = content
                      /\ ret' = GetSystemStatsFail("cpu: parse", mem)
                      /\ gpc' = "returned"
                      /\ stat2' = stat2
                 ELSE /\ file' = content
                      /\ stat2' = r.stats
                      /\ gpc' = "compute"
                      /\ ret' = ret
    /\ UNCHANGED <<lifeVars, slept, mem, stat1>>

\* getCPUStats: the loop over stat1, then GetSystemStats builds the snapshot.
\* A panic ends the call without a return.
ComputeUsage ==
    /\ gpc = "compute"
    /\ file' = <<>>
    /\ \E order \in IterationOrders(stat1) :
          LET c == cpuUsage(order, stat1, stat2)
          IN  IF c.panic
              THEN /\ gpc' = "panicked"
                   /\ ret' = ret
              ELSE /\ gpc' = "returned"
                   /\ ret' = GetSystemStatsOk(mem, c)
    /\ UNCHANGED <<lifeVars, opens, slept, mem, stat1, stat2>>

\* ---- contents of the remote files ----
MemLines ==
    {Line("MemTotal:", <<Num(v), Text>>) : v \in {0, 0 - 1024, 4000000, 8000000}}
        \cup {Line("MemAvailable:", <<Num(v), Text>>) : v \in {2000000, 4000000}}
        \cup {Line("MemTotal:", <<Text>>),
              Line("MemTotal:", <<>>),
              Line("MemFree:", <<Num(2000000), Text>>)}

MemInputs == SeqsUpTo(MemLines, MaxMemLines)

MemSample ==
    {<<Line("MemTotal:", <<Num(8000000), Text>>),
       Line("MemAvailable:", <<Num(4000000), Text>>)>>,
     <<Line("MemTotal:", <<Num(0), Text>>)>>}

Toks(row) == [j \in DOMAIN row |-> Num(row[j])]

RowA  == <<100, 0, 100, 700>>
RowB  == <<110, 0, 110, 770>>
RowA5 == <<100, 0, 100, 700, 5>>
RowB5 == <<110, 0, 110, 770, 5>>
RowC  == <<200, 0, 100, 690>>
Row3  == <<100, 0, 100>>

OtherLine == Line("intr", <<Num(5)>>)
TextLine  == Line("cpu1", <<Num(100), Text, Num(100), Num(700)>>)

\* Lines of the first read of /proc/stat, and of the second.
StatLines1 ==
    {Line("cpu0", Toks(r)) : r \in {RowA, Row3, <<>>}}
        \cup {Line("cpu", Toks(RowA)), Line("cpu1", Toks(RowA)),
              TextLine, OtherLine}

StatLines2 ==
    {Line("cpu0", Toks(r)) : r \in {RowA, RowB, RowA5, RowB5, RowC, Row3}}
        \cup {Line("cpu", Toks(RowB)), Line("cpu1", Toks(RowB)),
              TextLine, OtherLine}

StatInputs1 == SeqsUpTo(StatLines1, MaxStatLines)
StatInputs2 == SeqsUpTo(StatLines2, MaxStatLines)

StatSample1 == {<<Line("cpu", Toks(RowA)), Line("cpu0", Toks(RowA))>>}
StatSample2 == {<<Line("cpu", Toks(RowB)), Line("cpu0", Toks(RowB))>>}

\* ---- specifications ----
StartStep(l) ==
    \/ StartAsync(l)
    \/ StartSyncEnsure(l)
    \/ StartSyncAdd(l)

LoopStep(l) ==
    \/ TickerFire(l)
    \/ TickCycle(l)
    \/ CollectFail(l)
    \/ Sleep(l)
    \/ FormatFail(l)
    \/ LogRecord(l)
    \/ PrintError(l)

\* Spec: the lifecycle. Start and Stop calls by independent threads on the
\* monitor main.go builds.
Next ==
    \/ \E l \in Starters : StartStep(l)
    \/ \E l \in Starters : LoopStep(l)
    \/ \E l \in Starters : LoopExit(l)
    \/ StopRead("Stop", FALSE)
    \/ StopCancel
    \/ StopWait

Spec == Init /\ [][Next]_vars

\* SpecJoin: the lifecycle, each Stop call noting the start calls made
\* before it began.
NextJoin ==
    \/ \E l \in Starters : StartStep(l)
    \/ \E l \in Starters : LoopStep(l)
    \/ \E l \in Starters : LoopExit(l)
    \/ StopRead("Stop", TRUE)
    \/ StopCancel
    \/ StopWait

SpecJoin == Init /\ [][NextJoin]_vars

\* SpecConf: running loops and concurrent calls of the mutators.
NextConf ==
    \/ \E l \in Starters : StartStep(l)
    \/ \E l \in Starters : LoopStep(l)
    \/ \E d \in Durations : SetInterval(d)
    \/ \E d \in Durations : SetSampleDelta(d)

SpecConf == Init /\ [][NextConf]_vars

\* SpecClose: a monitor built by any of the constructors; start, Stop and
\* Close calls.
InitClose == InitState(Kinds)

NextClose ==
    \/ \E l \in Starters : StartStep(l)
    \/ \E l \in Starters : LoopStep(l)
    \/ \E l \in Starters : LoopExit(l)
    \/ \E op \in {"Stop", "Close"} : StopRead(op, FALSE)
    \/ StopCancel
    \/ StopWait
    \/ CollectorClose

SpecClose == InitClose /\ [][NextClose]_vars

\* SpecMem: one GetSystemStats call over every /proc/meminfo content.
NextMem ==
    \/ GetMemoryStats(MemInputs)
    \/ Snapshot1(StatSample1)
    \/ SleepDelta
    \/ Snapshot2(StatSample2)
    \/ ComputeUsage

SpecMem == Init /\ [][NextMem]_vars

\* SpecCpu: one GetSystemStats call over every pair of /proc/stat contents.
NextCpu ==
    \/ GetMemoryStats(MemSample)
    \/ Snapshot1(StatInputs1)
    \/ SleepDelta
    \/ Snapshot2(StatInputs2)
    \/ ComputeUsage

SpecCpu == Init /\ [][NextCpu]_vars

\* ---- properties ----
\* The latest Stop call has returned.
Stopped == spc \in {"returned", "closed"}

\* Loop l makes its ensureFreshContext call in this step.
Ensures(l) == pc'[l] # pc[l] /\ pc'[l] \in {"go", "ensured"}

\* Loop l returns from StartSync in this step.
Exits(l) == pc[l] # "done" /\ pc'[l] = "done"

\* C1: when a Stop call has returned, every loop of a start call made
\* before that Stop call began has exited.
StopJoinsEarlierStarts ==
    Stopped => \A l \in before : pc[l] = "done"

\* C2 as stated: at every moment at most one monitoring loop is active.
AtMostOneLoop == Cardinality(ActiveLoops) <= 1

\* C2 amended: a start call made while the cancellation signal is
\* untriggered does not replace the signal (it still launches its own loop).
StartWhileRunningKeepsSignal ==
    [][\A l \in Starters :
          (Ensures(l) /\ ~Done(ctx)) => UNCHANGED ctxVars]_vars

\* Two loops launched on the same untriggered signal are active together.
TwoLoopsOnOneSignal ==
    \E l, k \in Starters :
        /\ l # k
        /\ InLoop(l) /\ InLoop(k)
        /\ startCtx[l] = ctx /\ startCtx[k] = ctx
        /\ ~Done(ctx)

\* C3: a loop that was running when Stop triggered its signal reads a
\* triggered signal at its wait, whatever concurrent starts did.
SignalledLoopObservesCancel ==
    \A l \in Starters : (InLoop(l) /\ Done(startCtx[l])) => Done(ctx)

\* C4: a start leaves an untriggered signal in place before its loop
\* begins; the loop reaches its wait only through a collect+log cycle and
\* exits only there, on a cancellation of a signal that was untriggered
\* when the loop started.
Restartable ==
    [][\A l \in Starters :
          /\ Ensures(l) => ~(ctx' \in done')
          /\ (pc'[l] = "ensured" /\ pc[l] # "ensured") => startCtx'[l] = ctx'
          /\ (pc'[l] = "select" /\ pc[l] # "select")
                 => pc[l] \in {"collect2", "failed"}
          /\ Exits(l) => (pc[l] = "select" /\ Done(startCtx[l]))]_vars

\* A loop started after a Stop returned runs on a fresh signal, has logged
\* a record and is waiting.
RestartedLoopRuns ==
    \E l \in Starters :
        /\ Stopped
        /\ pc[l] = "select"
        /\ startCtx[l] > 1
        /\ ~Done(ctx)
        /\ \E i \in DOMAIN log : log[i].loop = l

\* C5: a Stop call waiting while no start call is in progress can return,
\* and no step of a Stop call starts a loop or writes a record.
StopWhenStoppedReturns ==
    /\ []((spc = "wait" /\ \A l \in Starters : ~InProgress(l))
              => ENABLED StopWait)
    /\ [][(spc' # spc) => (pc' = pc /\ log' = log /\ wg' = wg)]_vars

\* Two Stop calls have returned after a loop ran and exited.
TwoStopsReturned ==
    /\ stops = 2
    /\ spc = "returned"
    /\ pc[1] = "done"
    /\ \A l \in Starters : ~InProgress(l)

\* C6: a failed cycle writes no record and leaves the loop running; the
\* loop goes on to its wait, where a pending tick starts another cycle,
\* and it exits only on a cancellation.
FailedCycleKeepsLoop ==
    /\ [][\A l \in Starters :
             /\ (pc'[l] = "failed" /\ pc[l] # "failed")
                    => (log' = log /\ wg' = wg)
             /\ (pc[l] = "failed" /\ pc'[l] # "failed")
                    => (pc'[l] = "select" /\ log' = log /\ wg' = wg)
             /\ Exits(l) => (pc[l] = "select" /\ Done(startCtx[l]))]_vars
    /\ [](\A l \in Starters :
             pc[l] \in {"failed", "select"} =>
                 /\ InLoop(l) /\ wg > 0
                 /\ (pc[l] = "select" /\ tick[l] /\ began < MaxCycles)
                        => ENABLED TickCycle(l))

\* The only loop failed its initial cycle and logged its second cycle.
LoggedAfterFailedInitialCycle ==
    /\ pc[1] = "select"
    /\ \A l \in Starters : l # 1 => pc[l] = "idle"
    /\ began = 2
    /\ log = <<[loop |-> 1, cycle |-> 2]>>

\* C7: once Close has returned, the channel of a monitor built from
\* connection parameters is closed and a caller-supplied client is open.
CloseReleasesOwnedChannel ==
    spc = "closed" =>
        /\ kind = "SSHConfig" => (~sftpOpen /\ ~sshOpen)
        /\ kind = "SFTP" => sftpOpen

\* C8: IsRunning is true exactly when a monitoring loop is active.
IsRunningIffLoopActive == IsRunning <=> (ActiveLoops # {})

\* C9: the sleep between the two samples of a cycle uses the sampling
\* spacing configured when the cycle began.
SleepUsesSpacingAtCycleBegin ==
    \A l \in Starters : pc[l] = "collect2" => sleepDelta[l] = beginDelta[l]

\* C10 as stated: records are written in the order their cycles began.
LogInCollectionOrder ==
    \A i, j \in DOMAIN log : i < j => log[i].cycle < log[j].cycle

\* C10 amended: the records of one loop are written in the order its
\* cycles began.
LogInCollectionOrderPerLoop ==
    \A i, j \in DOMAIN log :
        (i < j /\ log[i].loop = log[j].loop) => log[i].cycle < log[j].cycle

\* One loop has written the records of two cycles.
TwoRecordsOfOneLoop ==
    /\ Len(log) = 2
    /\ log[1].loop = log[2].loop

\* C19: once the signal of a loop is triggered, the loop begins no new
\* collect+log cycle, also when a tick is pending at its wait.
NoCycleAfterCancel ==
    [][\A l \in Starters :
          (pc[l] = "select" /\ pc'[l] = "collect1") => ~Done(startCtx[l])]_vars

\* ---- the memory sub-step ----
\* The state after a completed read of /proc/meminfo: the content is in file.
MeminfoRead ==
    \/ gpc = "snap1"
    \/ gpc = "returned" /\ ret.err = "memory: invalid meminfo"

NumericLine(line, key) ==
    line.key = key /\ Len(line.toks) >= 1 /\ line.toks[1].num

\* The value of the last (first) line of the key with a numeric value, 0
\* when there is none.
LastValue(lines, key) ==
    LET S == {i \in DOMAIN lines : NumericLine(lines[i], key)}
    IN  IF S = {} THEN 0
        ELSE lines[CHOOSE i \in S : \A j \in S : j <= i].toks[1].val

FirstValue(lines, key) ==
    LET S == {i \in DOMAIN lines : NumericLine(lines[i], key)}
    IN  IF S = {} THEN 0
        ELSE lines[CHOOSE i \in S : \A j \in S : i <= j].toks[1].val

MemOf(total, available) ==
    [totalMB |-> Rat(total, 1024), usedMB |-> Rat(total - available, 1024)]

\* C11: every snapshot returned by GetSystemStats has totalMemoryMB > 0.
TotalMemoryPositive ==
    ret.nonNil => ret.stats.TotalMemoryMB.n > 0

\* C13 (as stated): the memory figures come from the first MemTotal: line and
\* the first MemAvailable: line with a numeric value.
FirstOccurrenceWins ==
    gpc = "snap1" =>
        mem = MemOf(FirstValue(file, "MemTotal:"), FirstValue(file, "MemAvailable:"))

\* C13: the memory figures come from the last MemTotal: line and the last
\* MemAvailable: line with a numeric value; lines of another key, without a
\* value or with a value that is not a number change nothing and are no error
\* (the sub-step fails exactly when that last MemTotal: value is zero or
\* missing).
LastOccurrenceWins ==
    MeminfoRead =>
        /\ (gpc = "snap1") = (LastValue(file, "MemTotal:") # 0)
        /\ gpc = "snap1" =>
              mem = MemOf(LastValue(file, "MemTotal:"),
                          LastValue(file, "MemAvailable:"))

TwoTotalsRead ==
    /\ gpc = "snap1"
    /\ Len(file) = 2
    /\ NumericLine(file[1], "MemTotal:")
    /\ NumericLine(file[2], "MemTotal:")
    /\ file[1].toks[1].val # file[2].toks[1].val
    /\ mem.totalMB = Rat(file[2].toks[1].val, 1024)

\* ---- the composition of the two sub-steps ----
\* A token that does not parse in the leading run of cpu-prefixed lines.
BadTokenInRun(lines) ==
    \E i \in DOMAIN lines :
        /\ ParseFails(lines[i])
        /\ \A j \in 1..i : HasPrefixCpu(lines[j])

\* C12: GetSystemStats returns a snapshot and no error, or an error and no
\* snapshot; after a failure of the memory sub-step nothing of the CPU
\* sub-step has run (no read of /proc/stat, no sleep); a sample is accepted
\* only without a non-numeric token, and a CPU failure returns no snapshot.
NoPartialResults ==
    /\ gpc = "returned" =>
          /\ ret.nonNil = (ret.err = "nil")
          /\ ~ret.nonNil => ret.stats = NoStats
    /\ ret.err \in {"memory: io", "memory: invalid meminfo"} =>
          opens = <<MeminfoPath>> /\ slept = 0
    /\ gpc \in {"sleep", "compute"} => ~BadTokenInRun(file)
    /\ BadTokenInRun(file) =>
          gpc = "returned" /\ ret.err = "cpu: parse" /\ ~ret.nonNil
    /\ ret.err \in {"cpu: io", "cpu: parse"} => gpc = "returned" /\ ~ret.nonNil

SecondSampleFails ==
    /\ gpc = "returned"
    /\ ret.err = "cpu: parse"
    /\ BadTokenInRun(file)
    /\ opens = <<MeminfoPath, StatPath, StatPath>>
    /\ slept = 1

\* ---- the CPU sub-step ----
Returned == gpc = "returned" /\ ret.nonNil

SumAll(v) == SumFirst(v, Len(v))
TotalDelta(c) == SumAll(stat2[c]) - SumAll(stat1[c])
IdleDelta(c) == stat2[c][4] - stat1[c][4]
Usage(c) == RatTimes(Rat(TotalDelta(c) - IdleDelta(c), TotalDelta(c)), 100)

\* A core with a row of at least 4 counters in both samples and a total
\* delta that is not zero.
Measurable(c) ==
    /\ c \in DOMAIN stat1 \cap DOMAIN stat2
    /\ Len(stat1[c]) >= 4
    /\ Len(stat2[c]) >= 4
    /\ TotalDelta(c) # 0

Entries(c) ==
    {i \in DOMAIN ret.stats.CPUStats : ret.stats.CPUStats[i].Core = c}

\* C14: in a returned snapshot the usage of every measurable core is
\* (1 - idleDelta/totalDelta)*100 over the sums of all counters of its two
\* rows; the row cpu gives TotalCPUPercentage, any other row one entry.
UsageFromFullSums ==
    Returned =>
        \A c \in DOMAIN stat1 :
            Measurable(c) =>
                IF c = "cpu"
                THEN ret.stats.TotalCPUPercentage = Usage(c)
                ELSE /\ Cardinality(Entries(c)) = 1
                     /\ \A i \in Entries(c) :
                           ret.stats.CPUStats[i].UsagePct = Usage(c)

\* C15: in a returned snapshot perCoreCPU has an entry for c exactly when c
\* is not cpu and c is measurable.
PerCoreEntriesExactly ==
    Returned =>
        \A c \in {"cpu", "cpu0", "cpu1"} :
            (Entries(c) # {}) = (c # "cpu" /\ Measurable(c))

\* Rows of one length, with counters that are not negative and do not
\* decrease from the first sample to the second.
WellFormed(c) ==
    /\ Len(stat1[c]) = Len(stat2[c])
    /\ \A j \in DOMAIN stat1[c] : 0 <= stat1[c][j] /\ stat1[c][j] <= stat2[c][j]

InRange(u) == RatLe(Zero, u) /\ RatLe(u, Rat(100, 1))

\* C16: in a returned snapshot the usage of a measurable core with
\* well-formed rows and a total delta above zero is reported and lies in
\* [0, 100].
UsageInRange ==
    Returned =>
        \A c \in DOMAIN stat1 :
            (Measurable(c) /\ WellFormed(c) /\ TotalDelta(c) > 0) =>
                IF c = "cpu"
                THEN InRange(ret.stats.TotalCPUPercentage)
                ELSE /\ Entries(c) # {}
                     /\ \A i \in Entries(c) :
                           InRange(ret.stats.CPUStats[i].UsagePct)

BusyCoreReported ==
    /\ Returned
    /\ Measurable("cpu0")
    /\ WellFormed("cpu0")
    /\ stat1["cpu0"] = RowA
    /\ stat2["cpu0"] = RowB
    /\ \E i \in Entries("cpu0") : ret.stats.CPUStats[i].UsagePct = Rat(200, 9)

\* C17: the order of the entries of perCoreCPU is determined by the two
\* samples: whatever order the loop over stat1 takes, the returned sequence
\* is the same.
PerCoreOrderDetermined ==
    [][(gpc = "compute" /\ gpc' = "returned") =>
          \A o \in IterationOrders(stat1) :
              ret'.stats.CPUStats = cpuUsage(o, stat1, stat2).perCore]_vars

\* C18: a call never ends in a panic, whatever the shape of the rows.
NeverPanics == gpc # "panicked"

\* ---- the samples ----
\* The length of the maximal leading run of cpu-prefixed lines.
RunLength(lines) ==
    LET S == {k \in 0..Len(lines) : \A j \in 1..k : HasPrefixCpu(lines[j])}
    IN  CHOOSE k \in S : \A m \in S : m <= k

\* The rows of the leading run (of one id, the last).
IsLeadingRun(stats, lines) ==
    LET n == RunLength(lines)
    IN  /\ DOMAIN stats = {lines[j].key : j \in 1..n}
        /\ \A j \in 1..n :
              (\A k \in (j + 1)..n : lines[k].key # lines[j].key) =>
                  stats[lines[j].key] = Values(lines[j])

\* C20: a sample holds exactly the rows of the maximal leading run of
\* cpu-prefixed lines; a file whose first line has no such prefix gives an
\* empty sample and no error.
SampleIsLeadingRun ==
    /\ gpc = "sleep" => IsLeadingRun(stat1, file)
    /\ gpc = "compute" => IsLeadingRun(stat2, file)
    /\ ret.err = "cpu: parse" => RunLength(file) > 0

LateCpuLineIgnored ==
    /\ gpc = "sleep"
    /\ Len(file) = 2
    /\ ~HasPrefixCpu(file[1])
    /\ HasPrefixCpu(file[2])
    /\ DOMAIN stat1 = {}
====
